---------------------------- MODULE Spec2Model ----------------------------
(***************************************************************************)
(* State-machine model of the TrafficSandbox browser viewer:               *)
(*   view_state.js + listener.js  (src/unnamed/part_001)                   *)
(*   map.js                       (src/unnamed/part_003)                   *)
(*   main.js                      (src/unnamed/part_002)                   *)
(*   actor.js                     (src/TrafficSandbox/static/js/actor.js)  *)
(*                                                                         *)
(* JavaScript numbers are modelled as exact extended rationals <<n, d>>:   *)
(* d > 0 and gcd(n, d) = 1 for a finite number, <<1,0>> and <<-1,0>> for   *)
(* +Infinity and -Infinity, <<0,0>> for NaN.  Rounding of doubles is not   *)
(* modelled.  The JavaScript value undefined is the empty tuple <<>>.      *)
(***************************************************************************)
EXTENDS Integers, Sequences, FiniteSets, TLC

(***************************************************************************)
(* Numbers                                                                 *)
(***************************************************************************)
U == <<>>

NaN == <<0, 0>>

PosInf == <<1, 0>>

NegInf == <<-1, 0>>

Abs(i) == IF i < 0 THEN -i ELSE i

Sgn(i) == IF i < 0 THEN -1 ELSE IF i > 0 THEN 1 ELSE 0

RECURSIVE Gcd(_, _)
Gcd(a, b) == IF b = 0 THEN a ELSE Gcd(b, a % b)

\* the finite number n/d (d # 0) in lowest terms with a positive denominator
Norm(n, d) ==
  LET g == Gcd(Abs(n), Abs(d))
  IN  IF d < 0 THEN <<(-n) \div g, (-d) \div g>> ELSE <<n \div g, d \div g>>

Num(i) == <<i, 1>>

IsNaN(a) == a = NaN

IsFinite(a) == a[2] # 0

Neg(a) == <<-a[1], a[2]>>

\* a + b
Add(a, b) ==
  IF IsNaN(a) \/ IsNaN(b) THEN NaN
  ELSE IF ~IsFinite(a) /\ ~IsFinite(b) THEN (IF a = b THEN a ELSE NaN)
  ELSE IF ~IsFinite(a) THEN a
  ELSE IF ~IsFinite(b) THEN b
  ELSE LET g == Gcd(a[2], b[2])
           l == (a[2] \div g) * b[2]
       IN  Norm(a[1] * (l \div a[2]) + b[1] * (l \div b[2]), l)

\* a - b
Sub(a, b) == Add(a, Neg(b))

\* a * b
Mul(a, b) ==
  IF IsNaN(a) \/ IsNaN(b) THEN NaN
  ELSE IF ~IsFinite(a) \/ ~IsFinite(b)
       THEN (IF Sgn(a[1]) * Sgn(b[1]) = 0 THEN NaN ELSE <<Sgn(a[1]) * Sgn(b[1]), 0>>)
  ELSE LET g1 == Gcd(Abs(a[1]), b[2])
           g2 == Gcd(Abs(b[1]), a[2])
       IN  Norm((a[1] \div g1) * (b[1] \div g2), (a[2] \div g2) * (b[2] \div g1))

\* a / b
Div(a, b) ==
  IF IsNaN(a) \/ IsNaN(b) THEN NaN
  ELSE IF ~IsFinite(b) THEN (IF IsFinite(a) THEN Num(0) ELSE NaN)
  ELSE IF b[1] = 0
       THEN (IF a[1] = 0 THEN NaN ELSE <<Sgn(a[1]), 0>>)
  ELSE Mul(a, IF b[1] < 0 THEN <<-b[2], -b[1]>> ELSE <<b[2], b[1]>>)

\* a < b
Lt(a, b) ==
  IF IsNaN(a) \/ IsNaN(b) THEN FALSE
  ELSE IF ~IsFinite(a) \/ ~IsFinite(b)
       THEN (IF ~IsFinite(a) /\ ~IsFinite(b) THEN a[1] < b[1]
             ELSE IF ~IsFinite(a) THEN a[1] < 0 ELSE b[1] > 0)
  ELSE LET g == Gcd(a[2], b[2])
       IN  a[1] * (b[2] \div g) < b[1] * (a[2] \div g)

\* a <= b
Le(a, b) == ~IsNaN(a) /\ ~IsNaN(b) /\ ~Lt(b, a)

\* Math.min(a, b)
MathMin(a, b) == IF IsNaN(a) \/ IsNaN(b) THEN NaN ELSE IF Lt(b, a) THEN b ELSE a

\* Math.max(a, b)
MathMax(a, b) == IF IsNaN(a) \/ IsNaN(b) THEN NaN ELSE IF Lt(a, b) THEN b ELSE a

\* JavaScript truthiness of a number: 0 and NaN are falsy
Truthy(a) == ~IsNaN(a) /\ a[1] # 0

(***************************************************************************)
(* Program constants                                                       *)
(***************************************************************************)
minScale == 1

maxScale == 50

\* rotationStep = 0.002
rotationStep == <<1, 500>>

\* the wheel listener's step factor 0.05
wheelStep == <<1, 20>>

(***************************************************************************)
(* Bounds of the model                                                     *)
(***************************************************************************)
\* input events (gestures, API calls, channel events, DOM changes) per run
MaxSteps == 3

\* wheel events per run (each multiplies the denominators by 20)
MaxWheel == 2

(***************************************************************************)
(* Inputs                                                                  *)
(***************************************************************************)
\* a lane of a scene payload; polygon is U when the field is missing
Lane(polygon) == [polygon |-> polygon]

V(a, b) == <<Num(a), Num(b)>>

\* scene payloads by identity; map_name "" stands for a payload without a
\* name, lanes U for a payload without a lane list.  C is a later payload of
\* the map A is a payload of; F has a vertex whose x is NaN.
Payload(id) ==
  CASE id = "A" -> [map_name |-> "town",
                    lanes |-> << Lane(<< V(-40, -30), V(40, -30), V(40, 30), V(-40, 30) >>) >>]
    [] id = "B" -> [map_name |-> "plaza",
                    lanes |-> << Lane(<< V(1, 1), V(3, 1), V(3, 2) >>), Lane(U) >>]
    [] id = "C" -> [map_name |-> "town",
                    lanes |-> << Lane(<< V(-80, -60), V(0, -60), V(0, 0) >>) >>]
    [] id = "D" -> [map_name |-> "",
                    lanes |-> << Lane(<< <<U, Num(2)>>, <<Num(1), U>> >>), Lane(U) >>]
    [] id = "E" -> [map_name |-> "yard", lanes |-> U]
    [] id = "F" -> [map_name |-> "plaza",
                    lanes |-> << Lane(<< V(5, 5), <<NaN, Num(7)>> >>) >>]
    [] OTHER    -> U

\* the payloads the channel delivers; "null" is an absent payload
SceneIds == {"A", "B", "C", "D", "E", "null"}

\* the same with the payload that carries a non-finite coordinate
AllSceneIds == SceneIds \cup {"F"}

\* an actor of a per-frame payload: category as its dot-separated segments,
\* role "" when absent, polygon U when missing, speed a number
Actor(id, category, role, polygon, speed) ==
  [id |-> id, category |-> category, role |-> role, polygon |-> polygon, speed |-> speed]

\* per-frame payloads by identity
Frame(f) ==
  CASE f = "F1" -> [map_name |-> "town", frame |-> 1,
                    actors |-> << Actor(7, <<"vehicle", "car">>, "", << V(0, 0), V(4, 0), V(4, 2), V(0, 2) >>, <<314159, 100000>>),
                                  Actor(8, <<"walker", "adult">>, "", << V(5, 5), V(6, 5), V(6, 6) >>, Num(1)),
                                  Actor(9, <<"vehicle", "van">>, "", << V(9, 0), V(12, 0), V(12, 2) >>, Num(0)) >>]
    [] f = "F2" -> [map_name |-> "town", frame |-> 2,
                    actors |-> << Actor(1, <<"vehicle", "car">>, "ads", << V(1, 1), V(5, 1), V(5, 3), V(1, 3) >>, <<5, 2>>),
                                  Actor(7, <<"vehicle", "car">>, "", << V(0, 0), V(4, 0) >>, Num(3)),
                                  Actor(8, <<"walker", "adult">>, "", U, Num(1)) >>]
    [] f = "F3" -> [map_name |-> "town", frame |-> 3, actors |-> << >>]
    [] f = "F4" -> [map_name |-> "town", frame |-> 4,
                    actors |-> << Actor(5, <<"drone">>, "", << V(2, 2), V(3, 3) >>, Num(2)) >>]
    [] OTHER    -> U

FrameIds == {"F1", "F2", "F3", "F4"}

\* pointer positions (clientX, clientY)
Pointers == { <<0, 0>>, <<7, 3>> }

\* the same with a position far enough for a rotation beyond a full turn
FarPointers == Pointers \cup { <<4000, 3>> }

\* mouse buttons: primary, middle, secondary
Buttons == {0, 1, 2}

\* page layouts: the .simulator-container's client size (U when the element
\* is missing), the map canvas's client size and its bounding rect's corner
DomStates ==
  { [container |-> <<4, 2>>,  canvas |-> <<4, 2>>,  rect |-> <<0, 0>>],
    [container |-> <<10, 6>>, canvas |-> <<10, 6>>, rect |-> <<1, 1>>],
    [container |-> U,         canvas |-> <<4, 2>>,  rect |-> <<0, 0>>] }

\* the argument of a setTransform call: each field a number or U
Partial(x, y, s, r) == [x |-> x, y |-> y, s |-> s, r |-> r]

\* arguments of direct setTransform calls
Partials ==
  { Partial(U, U, U, U),
    Partial(Num(100), Num(-100), U, U),
    Partial(U, Num(1), Num(60), U),
    Partial(U, U, Num(0), Num(3)),
    Partial(Num(-2), U, Num(49), U) }

(***************************************************************************)
(* State                                                                   *)
(***************************************************************************)
VARIABLES
  offsetX, offsetY, scale, rotationAngle,   \* view_state.js
  isDragging, isRotating, startX, startY,   \* listener.js
  rafToken,                                 \* listener.js
  rafPending,                               \* animation-frame callbacks requested and not yet run
  mutations,                                \* transform-mutating gestures since the last refresh
  rafRuns,                                  \* the last refresh: gestures before it, callbacks it ran
  mapData, mapBounds,                       \* map.js
  mapCanvas,                                \* the scene drawMap last painted
  barWidth,                                 \* .loading-progress-bar width, percent
  dom,                                      \* page layout
  db,                                       \* map.js: the store handle, 0 for null
  dbSeq,                                    \* connections indexedDB.open has delivered
  tasks,                                    \* async functions suspended in await openDB()
  txQueue,                                  \* IndexedDB requests issued and not yet finished
  store,                                    \* the persisted "maps" table: name -> payload
  lastMapName,                              \* localStorage "lastMapName", "" when unset
  getResult,                                \* what the last finished loadCachedMap resolved with
  history,                                  \* cache requests that succeeded, in order (a get with its result)
  latestTrafficData,                        \* main.js: window.latestTrafficData
  actors,                                   \* actor.js: the module's actors
  actorCanvas,                              \* what is painted on the actor canvas
  readouts,                                 \* the frames the info and traffic-light displays show
  windowActors,                             \* whether window.actors is truthy
  globalMin,                                \* whether globals min_x and min_y are defined
  received,                                 \* the per-frame updates received so far
  lastDraw,                                 \* how the last drawActor call ended
  drawCalls,                                \* drawMap executions of the last scene handler or refresh
  cacheFailed,                              \* a store open, transaction or request has failed
  laneIn,                                   \* the lane drawMap's loop body last handled
  strokes,                                  \* the boundary strokes painted for it
  overlay,                                  \* #loading-bar is displayed
  overlayText,                              \* its .loading-text
  timers,                                   \* setTimeout callbacks set and not yet run, oldest first
  loadActive,                               \* a loading-start event has had no loading-done or -error yet
  panRef,                                   \* pointer minus offset at the primary press of the drag in progress
  rotRef,                                   \* pointer x and angle at the secondary press of the drag in progress
  steps, nWheel                             \* input events so far

tVars == << offsetX, offsetY, scale, rotationAngle >>

ptrVars == << isDragging, isRotating, startX, startY >>

rafVars == << rafToken, rafPending, mutations >>

sceneVars == << mapData, mapBounds >>

cacheVars == << db, dbSeq, tasks, txQueue, store, lastMapName, getResult, history >>

frameVars == << latestTrafficData, actors, actorCanvas, readouts, windowActors,
               globalMin, received, lastDraw >>

paintVars == << laneIn, strokes >>

overlayVars == << overlay, overlayText, timers, loadActive >>

dragVars == << panRef, rotRef >>

vars == << tVars, ptrVars, rafVars, rafRuns, sceneVars, mapCanvas, barWidth, dom,
           cacheVars, frameVars, drawCalls, cacheFailed, paintVars, overlayVars, dragVars,
           steps, nWheel >>

(***************************************************************************)
(* view_state.js                                                           *)
(***************************************************************************)
getTransform ==
  [offsetX |-> offsetX, offsetY |-> offsetY, scale |-> scale,
   rotationAngle |-> rotationAngle]

\* mutant: the upper clamp is lost, Math.max(s, minScale)
ClampScaleNoMax(s) == MathMax(s, Num(minScale))

\* Math.min(Math.max(s, minScale), maxScale)
ClampScale(s) == MathMin(MathMax(s, Num(minScale)), Num(maxScale))

\* !mapBounds || !mapBounds.max_x
BoundsMissing(b) == ~Truthy(b.max_x)

\* Math.max(0, mapDim * scale / 2 - viewDim / 2)
Limit(mapDim, s, viewDim) ==
  MathMax(Num(0), Sub(Div(Mul(mapDim, s), Num(2)), Div(Num(viewDim), Num(2))))

\* Math.min(Math.max(o, -limit), limit)
ClampOffset(o, limit) == MathMin(MathMax(o, Neg(limit)), limit)

\* the transform setTransform(p) stores, given the stored transform t, the
\* scene bounds b and the container (U when missing)
SetTransformOn(t, p, b, container) ==
  LET s1 == IF p.s # U THEN ClampScale(p.s) ELSE t.scale
      r1 == IF p.r # U THEN p.r ELSE t.rotationAngle
      x1 == IF p.x # U THEN p.x ELSE t.offsetX
      y1 == IF p.y # U THEN p.y ELSE t.offsetY
      merged == [offsetX |-> x1, offsetY |-> y1, scale |-> s1, rotationAngle |-> r1]
      limitX == Limit(Sub(b.max_x, b.min_x), s1, container[1])
      limitY == Limit(Sub(b.max_y, b.min_y), s1, container[2])
  IN  IF BoundsMissing(b) THEN merged
      ELSE IF container = U THEN merged
      ELSE [merged EXCEPT !.offsetX = ClampOffset(x1, limitX),
                          !.offsetY = ClampOffset(y1, limitY)]

\* setTransform(p) in the current state
setTransform(p) ==
  LET t == SetTransformOn(getTransform, p, mapBounds, dom.container)
  IN  /\ offsetX' = t.offsetX
      /\ offsetY' = t.offsetY
      /\ scale' = t.scale
      /\ rotationAngle' = t.rotationAngle

(***************************************************************************)
(* listener.js                                                             *)
(***************************************************************************)
\* the callbacks left pending by cancelAnimationFrame(token)
cancelAnimationFrame(token, pending) == pending \ {token}

\* the handle requestAnimationFrame returns: one that names no pending callback
\* and differs from the handle the program still holds
requestAnimationFrame(held, pending) ==
  CHOOSE h \in 1..(Cardinality(pending) + 2) :
    /\ h \notin pending \cup {held}
    /\ \A g \in 1..(h - 1) : g \in pending \cup {held}

\* mutant: the pending callback is not cancelled before the next is requested
requestRedrawNoCancel ==
  LET handle == requestAnimationFrame(rafToken, rafPending)
  IN  /\ rafToken' = handle
      /\ rafPending' = rafPending \cup {handle}
      /\ mutations' = mutations + 1

\* requestRedraw: cancelAnimationFrame(rafToken); rafToken = requestAnimationFrame(drawMap)
requestRedraw ==
  LET left == cancelAnimationFrame(rafToken, rafPending)
      handle == requestAnimationFrame(rafToken, left)
  IN  /\ rafToken' = handle
      /\ rafPending' = left \cup {handle}
      /\ mutations' = mutations + 1

\* the scale the wheel listener requests
WheelScale(up, s) ==
  LET dynamicStep == Mul(s, wheelStep)
  IN  IF up THEN MathMin(Add(s, dynamicStep), Num(maxScale))
      ELSE MathMax(Sub(s, dynamicStep), Num(minScale))

\* the offset the wheel listener requests on one axis
WheelOffset(mouse, ratio, offset) == Sub(mouse, Mul(ratio, Sub(mouse, offset)))

\* the cursor position relative to the canvas: e.clientX - rect.left, e.clientY - rect.top
MousePos(c) == << Num(c[1] - dom.rect[1]), Num(c[2] - dom.rect[2]) >>

\* the argument the wheel listener passes to setTransform
WheelRequest(up, c) ==
  LET newScale == WheelScale(up, scale)
      ratio == Div(newScale, scale)
  IN  Partial(WheelOffset(MousePos(c)[1], ratio, offsetX),
              WheelOffset(MousePos(c)[2], ratio, offsetY), newScale, U)

Wheel(up, c) ==
  /\ steps < MaxSteps /\ nWheel < MaxWheel
  /\ steps' = steps + 1 /\ nWheel' = nWheel + 1
  /\ setTransform(WheelRequest(up, c))
  /\ requestRedraw
  /\ UNCHANGED << ptrVars, rafRuns, sceneVars, mapCanvas, barWidth, dom, cacheVars >>
  /\ UNCHANGED << frameVars, paintVars, overlayVars, dragVars, drawCalls, cacheFailed >>

MouseDown(button, c) ==
  /\ steps < MaxSteps
  /\ steps' = steps + 1
  /\ IF button = 0
       THEN /\ isDragging' = TRUE
            /\ startX' = Sub(Num(c[1]), offsetX)
            /\ startY' = Sub(Num(c[2]), offsetY)
            /\ panRef' = << Sub(Num(c[1]), offsetX), Sub(Num(c[2]), offsetY) >>
            /\ UNCHANGED << isRotating, rotRef >>
       ELSE IF button = 2
         THEN /\ isRotating' = TRUE
              /\ startX' = Num(c[1])
              /\ startY' = Num(c[2])
              /\ rotRef' = [x |-> Num(c[1]), angle |-> rotationAngle]
              /\ UNCHANGED << isDragging, panRef >>
         ELSE UNCHANGED << ptrVars, dragVars >>
  /\ UNCHANGED << tVars, rafVars, rafRuns, sceneVars, mapCanvas, barWidth, dom,
                  cacheVars, nWheel >>
  /\ UNCHANGED << frameVars, paintVars, overlayVars, drawCalls, cacheFailed >>

\* the argument the mousemove listener passes to setTransform while dragging
DragRequest(c) == Partial(Sub(Num(c[1]), startX), Sub(Num(c[2]), startY), U, U)

\* mutant: dx taken with the opposite sign, startX - e.clientX
RotateRequestReversed(c) ==
  LET dx == Sub(startX, Num(c[1]))
  IN  Partial(U, U, U, Sub(rotationAngle, Mul(dx, rotationStep)))

\* the argument the mousemove listener passes to setTransform while rotating
RotateRequest(c) ==
  LET dx == Sub(Num(c[1]), startX)
  IN  Partial(U, U, U, Sub(rotationAngle, Mul(dx, rotationStep)))

MouseMove(c) ==
  /\ steps < MaxSteps
  /\ steps' = steps + 1
  /\ IF isDragging
       THEN /\ setTransform(DragRequest(c))
            /\ requestRedraw
            /\ UNCHANGED << startX, startY >>
       ELSE IF isRotating
         THEN /\ setTransform(RotateRequest(c))
              /\ startX' = Num(c[1])
              /\ startY' = Num(c[2])
              /\ requestRedraw
         ELSE UNCHANGED << tVars, startX, startY, rafVars >>
  /\ UNCHANGED << isDragging, isRotating, rafRuns, sceneVars, mapCanvas, barWidth,
                  dom, cacheVars, nWheel >>
  /\ UNCHANGED << frameVars, paintVars, overlayVars, dragVars, drawCalls, cacheFailed >>

\* mutant: the release clears the drag flag only
MouseUpKeepsRotate ==
  /\ steps < MaxSteps
  /\ steps' = steps + 1
  /\ isDragging' = FALSE
  /\ panRef' = U /\ rotRef' = U
  /\ UNCHANGED << tVars, isRotating, startX, startY, rafVars, rafRuns, sceneVars,
                  mapCanvas, barWidth, dom, cacheVars, nWheel >>
  /\ UNCHANGED << frameVars, paintVars, overlayVars, drawCalls, cacheFailed >>

\* the mouseup and mouseleave listeners
MouseUpOrLeave ==
  /\ steps < MaxSteps
  /\ steps' = steps + 1
  /\ isDragging' = FALSE
  /\ isRotating' = FALSE
  /\ panRef' = U /\ rotRef' = U
  /\ UNCHANGED << tVars, startX, startY, rafVars, rafRuns, sceneVars, mapCanvas,
                  barWidth, dom, cacheVars, nWheel >>
  /\ UNCHANGED << frameVars, paintVars, overlayVars, drawCalls, cacheFailed >>

\* mutant: the snapshot is the live transform, read again at each click
initialLive == getTransform

\* const initial = getTransform(), taken when the listeners are added
initial ==
  [offsetX |-> Num(0), offsetY |-> Num(0), scale |-> Num(1), rotationAngle |-> Num(0)]

\* the reset button's click listener
ResetClick ==
  /\ steps < MaxSteps
  /\ steps' = steps + 1
  /\ setTransform(Partial(initial.offsetX, initial.offsetY, initial.scale,
                          initial.rotationAngle))
  /\ requestRedraw
  /\ UNCHANGED << ptrVars, rafRuns, sceneVars, mapCanvas, barWidth, dom, cacheVars,
                  nWheel >>
  /\ UNCHANGED << frameVars, paintVars, overlayVars, dragVars, drawCalls, cacheFailed >>

\* a direct call of the exported setTransform
SetTransformCall(p) ==
  /\ steps < MaxSteps
  /\ steps' = steps + 1
  /\ setTransform(p)
  /\ UNCHANGED << ptrVars, rafVars, rafRuns, sceneVars, mapCanvas, barWidth, dom,
                  cacheVars, nWheel >>
  /\ UNCHANGED << frameVars, paintVars, overlayVars, dragVars, drawCalls, cacheFailed >>

\* the page layout changes (resize, element removed or restored)
DomChange(d) ==
  /\ steps < MaxSteps
  /\ steps' = steps + 1
  /\ d # dom
  /\ dom' = d
  /\ UNCHANGED << tVars, ptrVars, rafVars, rafRuns, sceneVars, mapCanvas, barWidth,
                  cacheVars, nWheel >>
  /\ UNCHANGED << frameVars, paintVars, overlayVars, dragVars, drawCalls, cacheFailed >>

(***************************************************************************)
(* map.js                                                                  *)
(***************************************************************************)
\* typeof c === "number"
IsNumber(c) == c # U

\* one vertex of the bounds scan
ScanVertex(v, b) ==
  IF ~IsNumber(v[1]) \/ ~IsNumber(v[2]) THEN b
  ELSE [min_x |-> IF Lt(v[1], b.min_x) THEN v[1] ELSE b.min_x,
        max_x |-> IF Lt(b.max_x, v[1]) THEN v[1] ELSE b.max_x,
        min_y |-> IF Lt(v[2], b.min_y) THEN v[2] ELSE b.min_y,
        max_y |-> IF Lt(b.max_y, v[2]) THEN v[2] ELSE b.max_y]

RECURSIVE ScanPolygon(_, _, _)
ScanPolygon(polygon, i, b) ==
  IF i > Len(polygon) THEN b
  ELSE ScanPolygon(polygon, i + 1, ScanVertex(polygon[i], b))

RECURSIVE ScanLanes(_, _, _)
ScanLanes(lanes, i, b) ==
  IF i > Len(lanes) THEN b
  ELSE ScanLanes(lanes, i + 1,
                 IF lanes[i].polygon = U THEN b
                 ELSE ScanPolygon(lanes[i].polygon, 1, b))

\* the bounds updateMap computes for a lane list
ComputeBounds(lanes) ==
  ScanLanes(lanes, 1,
            [min_x |-> PosInf, min_y |-> PosInf, max_x |-> NegInf, max_y |-> NegInf])

\* mutant: only an absent payload is rejected, the lane list is not tested
InvalidMapDataNullOnly(id) == id = "null"

\* !newMapData || !newMapData.lanes
InvalidMapData(id) == id = "null" \/ Payload(id).lanes = U

\* drawMap: returns at once without map data, else repaints the canvas with it
DrawMapOf(md, canvas) == IF md = "null" THEN canvas ELSE md

\* lane boundary types by name; "" is an absent (or empty) type.  The last
\* three are not keys of BOUNDARY_TYPE.
TypeKeys ==
  { "", "UNKNOWN", "DOTTED_YELLOW", "DOTTED_WHITE", "SOLID_YELLOW", "SOLID_WHITE",
    "DOUBLE_YELLOW", "CURB", "BOTTS_DOTS", "WHITE_ZIGZAG", "solid_white" }

\* lane boundaries: absent, one point, two points
Boundaries == { U, << V(0, 0) >>, << V(0, 0), V(1, 0) >> }

\* the lanes drawMap's loop is given
BoundaryLanes ==
  [left_boundary : Boundaries, left_boundary_type : TypeKeys,
   right_boundary : Boundaries \ { << V(0, 0) >> }, right_boundary_type : TypeKeys]

\* the characters of a type name
Chars(typeKey) ==
  CASE typeKey = "UNKNOWN" -> << "U", "N", "K", "N", "O", "W", "N" >>
    [] typeKey = "DOTTED_YELLOW" -> << "D", "O", "T", "T", "E", "D", "_", "Y", "E", "L", "L", "O", "W" >>
    [] typeKey = "DOTTED_WHITE" -> << "D", "O", "T", "T", "E", "D", "_", "W", "H", "I", "T", "E" >>
    [] typeKey = "SOLID_YELLOW" -> << "S", "O", "L", "I", "D", "_", "Y", "E", "L", "L", "O", "W" >>
    [] typeKey = "SOLID_WHITE" -> << "S", "O", "L", "I", "D", "_", "W", "H", "I", "T", "E" >>
    [] typeKey = "DOUBLE_YELLOW" -> << "D", "O", "U", "B", "L", "E", "_", "Y", "E", "L", "L", "O", "W" >>
    [] typeKey = "CURB" -> << "C", "U", "R", "B" >>
    [] typeKey = "BOTTS_DOTS" -> << "B", "O", "T", "T", "S", "_", "D", "O", "T", "S" >>
    [] typeKey = "WHITE_ZIGZAG" -> << "W", "H", "I", "T", "E", "_", "Z", "I", "G", "Z", "A", "G" >>
    [] typeKey = "solid_white" -> << "s", "o", "l", "i", "d", "_", "w", "h", "i", "t", "e" >>
    [] OTHER -> << >>

\* the characters of "YELLOW" and of "WHITE"
YELLOW == << "Y", "E", "L", "L", "O", "W" >>

WHITE == << "W", "H", "I", "T", "E" >>

\* String.prototype.includes on character sequences
Includes(str, word) ==
  \E i \in 0..(Len(str) - Len(word)) : \A j \in 1..Len(word) : str[i + j] = word[j]

\* BOUNDARY_TYPE[typeKey], U for a name that is not a key
BOUNDARY_TYPE(typeKey) ==
  CASE typeKey = "UNKNOWN"       -> [color |-> "#ccc", style |-> "solid"]
    [] typeKey = "DOTTED_YELLOW" -> [color |-> "rgb(238,191,0)", style |-> "dotted"]
    [] typeKey = "DOTTED_WHITE"  -> [color |-> "#ffffff", style |-> "dotted"]
    [] typeKey = "SOLID_YELLOW"  -> [color |-> "rgb(238,191,0)", style |-> "solid"]
    [] typeKey = "SOLID_WHITE"   -> [color |-> "#ffffff", style |-> "solid"]
    [] typeKey = "DOUBLE_YELLOW" -> [color |-> "rgb(238,191,0)", style |-> "double"]
    [] typeKey = "CURB"          -> [color |-> "#777777", style |-> "solid"]
    [] OTHER                     -> U

\* mutant: every style but "solid" is dashed
LineDashNotSolid(style) == IF style.style # "solid" THEN << 4, 4 >> ELSE << >>

\* the argument of ctx.setLineDash: [dashLength, dashLength] or []
LineDash(style) == IF style.style = "dotted" THEN << 4, 4 >> ELSE << >>

\* drawBoundary(ctx, lane, key, typeKey): the stroke it paints, U for none
drawBoundary(lane, key, typeKey) ==
  LET boundary == lane[key]
      style == IF BOUNDARY_TYPE(typeKey) # U THEN BOUNDARY_TYPE(typeKey)
               ELSE BOUNDARY_TYPE("UNKNOWN")
  IN  IF Len(boundary) < 2 THEN U
      ELSE IF typeKey = ""
                \/ (~Includes(Chars(typeKey), YELLOW) /\ ~Includes(Chars(typeKey), WHITE))
        THEN U
      ELSE [key |-> key, color |-> style.color, dash |-> LineDash(style),
            points |-> Len(boundary)]

\* the body of drawMap's lane loop: the two drawBoundary calls for one lane
DrawLaneBoundaries(lane) ==
  LET left == drawBoundary(lane, "left_boundary", lane.left_boundary_type)
      right == drawBoundary(lane, "right_boundary", lane.right_boundary_type)
  IN  /\ laneIn' = lane
      /\ strokes' = (IF left = U THEN << >> ELSE << left >>)
                    \o (IF right = U THEN << >> ELSE << right >>)
      /\ UNCHANGED << tVars, ptrVars, rafVars, rafRuns, sceneVars, mapCanvas, barWidth,
                      dom, cacheVars, frameVars, drawCalls, cacheFailed, overlayVars,
                      dragVars, steps, nWheel >>

\* Math.min(100, percent)
updateMapLoading(percent) == IF percent > 100 THEN 100 ELSE percent

\* the key of the record cacheMapToDB writes: newMapData.map_name || "unknown"
CacheKey(id) == IF Payload(id).map_name = "" THEN "unknown" ELSE Payload(id).map_name

\* the string localStorage.setItem stores for newMapData.map_name
StoredName(id) == IF Payload(id).map_name = "" THEN "undefined" ELSE Payload(id).map_name

\* names a record of the "maps" table may have
Keys == {"town", "plaza", "unknown"}

PutRequest(id) == [op |-> "put", key |-> CacheKey(id), data |-> id]

GetRequest(name) == [op |-> "get", key |-> name, data |-> "null"]

ClearRequest == [op |-> "clear", key |-> "", data |-> "null"]

\* mutant: an insert that keeps an existing record (add in place of put)
StoreAdd(st, key, data) == IF st[key] = "none" THEN [st EXCEPT ![key] = data] ELSE st

\* the table after a put: upsert on the keyPath map_name
StorePut(st, key, data) == [st EXCEPT ![key] = data]

\* the table after a clear
StoreClear(st) == [k \in Keys |-> "none"]

\* what loadCachedMap resolves with: req.result.data, or null without a record
StoreGet(st, name) == IF st[name] # "none" THEN st[name] ELSE "null"

\* the name the startup restore looks up:
\* localStorage.getItem("lastMapName") || "borregas_ave"
RestoreName(name) == IF name = "" THEN "borregas_ave" ELSE name

\* what a lookup resolves with for any name, also one no record can have
LookupByName(st, name) == IF name \in Keys THEN StoreGet(st, name) ELSE "null"

\* cacheMapToDB after its db check, and the setItem that follows it in
\* updateMap's try block; throws: db.transaction or store.put threw
CacheWrite(id, throws) ==
  /\ txQueue' = IF throws THEN txQueue ELSE Append(txQueue, PutRequest(id))
  /\ lastMapName' = IF throws THEN lastMapName ELSE StoredName(id)
  /\ cacheFailed' = (cacheFailed \/ throws)

\* drawMap executions of updateMap: line 110, which the early return skips
UpdateMapDraws(id) == IF InvalidMapData(id) THEN 0 ELSE 1

\* drawMap executions of the init_map handler once updateMap has returned:
\* updateMap's and the handler's own (main.js line 62)
InitMapDraws(id) == UpdateMapDraws(id) + 1

\* mutant: the cache failure escapes updateMap and the handler, no drawMap runs
FinishInitMapNoDraw(md) ==
  /\ mapCanvas' = mapCanvas
  /\ barWidth' = barWidth

\* the end of updateMap (drawMap) and of the init_map handler after its await
\* (updateMapLoading(90); drawMap())
FinishInitMap(md) ==
  /\ mapCanvas' = DrawMapOf(md, mapCanvas)
  /\ barWidth' = updateMapLoading(90)

(***************************************************************************)
(* main.js                                                                 *)
(***************************************************************************)
\* socket.on("init_map"): the handler up to its first suspension
InitMap(id) ==
  /\ steps < MaxSteps
  /\ steps' = steps + 1
  /\ IF id = "null"
       \* mapData.map_name of a null payload throws before anything is done
       THEN /\ drawCalls' = 0
            /\ UNCHANGED << sceneVars, mapCanvas, barWidth, cacheVars, cacheFailed >>
       ELSE IF InvalidMapData(id)
         THEN /\ FinishInitMap(mapData)
              /\ drawCalls' = InitMapDraws(id)
              /\ UNCHANGED << sceneVars, cacheVars, cacheFailed >>
         ELSE /\ mapData' = id
              /\ mapBounds' = ComputeBounds(Payload(id).lanes)
              /\ IF db = 0
                   THEN /\ tasks' = Append(tasks, [kind |-> "init_map", arg |-> id])
                        /\ barWidth' = updateMapLoading(60)
                        /\ drawCalls' = 0
                        /\ UNCHANGED << mapCanvas, txQueue, lastMapName, cacheFailed >>
                   ELSE /\ \E throws \in BOOLEAN : CacheWrite(id, throws)
                        /\ FinishInitMap(id)
                        /\ drawCalls' = InitMapDraws(id)
                        /\ UNCHANGED tasks
              /\ UNCHANGED << db, dbSeq, store, getResult, history >>
  /\ UNCHANGED << tVars, ptrVars, rafVars, rafRuns, dom, nWheel >>
  /\ UNCHANGED << frameVars, paintVars, overlayVars, dragVars >>

\* a call of the exported loadCachedMap(name), up to its first suspension
LoadCachedMapCall(name) ==
  /\ steps < MaxSteps
  /\ steps' = steps + 1
  /\ IF db = 0
       THEN /\ tasks' = Append(tasks, [kind |-> "load", arg |-> name])
            /\ UNCHANGED << txQueue, getResult, cacheFailed >>
       ELSE /\ \E throws \in BOOLEAN :
                 /\ txQueue' = IF throws THEN txQueue ELSE Append(txQueue, GetRequest(name))
                 /\ getResult' = IF throws THEN [name |-> name, value |-> "error"] ELSE getResult
                 /\ cacheFailed' = (cacheFailed \/ throws)
            /\ UNCHANGED tasks
  /\ UNCHANGED << tVars, ptrVars, rafVars, rafRuns, sceneVars, mapCanvas, barWidth,
                  dom, db, dbSeq, store, lastMapName, history, nWheel >>
  /\ UNCHANGED << frameVars, paintVars, overlayVars, dragVars, drawCalls >>

\* a call of the exported clearMapCache(), up to its first suspension
ClearMapCacheCall ==
  /\ steps < MaxSteps
  /\ steps' = steps + 1
  /\ IF db = 0
       THEN /\ tasks' = Append(tasks, [kind |-> "clear", arg |-> ""])
            /\ UNCHANGED << txQueue, cacheFailed >>
       ELSE /\ \E throws \in BOOLEAN :
                 /\ txQueue' = IF throws THEN txQueue ELSE Append(txQueue, ClearRequest)
                 /\ cacheFailed' = (cacheFailed \/ throws)
            /\ UNCHANGED tasks
  /\ UNCHANGED << tVars, ptrVars, rafVars, rafRuns, sceneVars, mapCanvas, barWidth,
                  dom, db, dbSeq, store, lastMapName, getResult, history, nWheel >>
  /\ UNCHANGED << frameVars, paintVars, overlayVars, dragVars, drawCalls >>

\* the oldest indexedDB.open request finishes (ok: onsuccess, else onerror) and
\* the function awaiting it runs on to its end; throws: db.transaction or the
\* request call threw
OpenDone(ok, throws) ==
  /\ tasks # << >>
  /\ Head(tasks).kind # "restore"
  /\ ok \/ ~throws
  /\ LET task == Head(tasks)
         fails == ~ok \/ throws
     IN  /\ tasks' = Tail(tasks)
         /\ db' = IF ok THEN dbSeq + 1 ELSE db
         /\ dbSeq' = IF ok THEN dbSeq + 1 ELSE dbSeq
         /\ IF task.kind = "init_map"
              THEN /\ CacheWrite(task.arg, fails)
                   /\ FinishInitMap(mapData)
                   /\ drawCalls' = InitMapDraws(task.arg)
                   /\ UNCHANGED getResult
              ELSE IF task.kind = "load"
                THEN /\ txQueue' = IF fails THEN txQueue ELSE Append(txQueue, GetRequest(task.arg))
                     /\ getResult' = IF fails THEN [name |-> task.arg, value |-> "error"]
                                     ELSE getResult
                     /\ cacheFailed' = (cacheFailed \/ fails)
                     /\ UNCHANGED << lastMapName, mapCanvas, barWidth, drawCalls >>
                ELSE /\ txQueue' = IF fails THEN txQueue ELSE Append(txQueue, ClearRequest)
                     /\ cacheFailed' = (cacheFailed \/ fails)
                     /\ UNCHANGED << lastMapName, mapCanvas, barWidth, getResult, drawCalls >>
  /\ UNCHANGED << tVars, ptrVars, rafVars, rafRuns, sceneVars, dom, store, history,
                  steps, nWheel >>
  /\ UNCHANGED << frameVars, paintVars, overlayVars, dragVars >>

\* the oldest IndexedDB request finishes (ok: it succeeds, else it fails and
\* its transaction aborts)
TxDone(ok) ==
  /\ txQueue # << >>
  /\ Head(txQueue).op # "restore"
  /\ LET req == Head(txQueue)
     IN  /\ txQueue' = Tail(txQueue)
         /\ store' = IF ~ok THEN store
                     ELSE IF req.op = "put" THEN StorePut(store, req.key, req.data)
                     ELSE IF req.op = "clear" THEN StoreClear(store)
                     ELSE store
         /\ getResult' = IF req.op # "get" THEN getResult
                         ELSE IF ok THEN [name |-> req.key, value |-> StoreGet(store, req.key)]
                         ELSE [name |-> req.key, value |-> "error"]
         /\ history' = IF ~ok THEN history
                       ELSE IF req.op = "get"
                         THEN Append(history, [req EXCEPT !.data = StoreGet(store, req.key)])
                       ELSE Append(history, req)
  /\ cacheFailed' = (cacheFailed \/ ~ok)
  /\ UNCHANGED << tVars, ptrVars, rafVars, rafRuns, sceneVars, mapCanvas, barWidth,
                  dom, db, dbSeq, tasks, lastMapName, steps, nWheel >>
  /\ UNCHANGED << frameVars, paintVars, overlayVars, dragVars, drawCalls >>

\* timer delays in units of 100 ms: the 300 ms of the done handler and of
\* hideMapLoading's inner timer, the 1000 ms of the error handler
HideDelay == 3

ErrorDelay == 10

\* setTimeout(fn, delay): fn is "hide" for hideMapLoading, "conceal" for its
\* inner callback; left counts the time units until the timer is due
SetTimeout(ts, fn, delay) == Append(ts, [fn |-> fn, left |-> delay])

\* the names a loading-start event may carry
LoadNames == {"town", "plaza"}

\* `Loading map: ${data.map_name}`
LoadingText(name) ==
  CASE name = "town" -> "Loading map: town"
    [] name = "plaza" -> "Loading map: plaza"
    [] OTHER -> "Loading map: undefined"

\* showMapLoading(text): the text, display "flex", updateMapLoading(5)
showMapLoading(text) ==
  /\ overlayText' = text
  /\ overlay' = TRUE
  /\ barWidth' = updateMapLoading(5)

\* hideMapLoading() called with the timers ts pending: the bar goes to 100%
\* and the overlay is taken down 300 ms later
hideMapLoading(ts) ==
  /\ barWidth' = 100
  /\ timers' = SetTimeout(ts, "conceal", HideDelay)

\* what the overlay handlers and timers leave alone
OverlayFrame ==
  UNCHANGED << tVars, ptrVars, rafVars, rafRuns, sceneVars, mapCanvas, dom, cacheVars,
               frameVars, drawCalls, cacheFailed, paintVars, dragVars, nWheel >>

\* socket.on("map_loading_start")
MapLoadingStart(name) ==
  /\ steps < MaxSteps
  /\ steps' = steps + 1
  /\ showMapLoading(LoadingText(name))
  /\ loadActive' = TRUE
  /\ UNCHANGED timers
  /\ OverlayFrame

\* socket.on("map_loading_done")
MapLoadingDone ==
  /\ steps < MaxSteps
  /\ steps' = steps + 1
  /\ barWidth' = updateMapLoading(100)
  /\ timers' = SetTimeout(timers, "hide", HideDelay)
  /\ loadActive' = FALSE
  /\ UNCHANGED << overlay, overlayText >>
  /\ OverlayFrame

\* socket.on("map_loading_error")
MapLoadingError ==
  /\ steps < MaxSteps
  /\ steps' = steps + 1
  /\ showMapLoading("Failed to load map")
  /\ timers' = SetTimeout(timers, "hide", ErrorDelay)
  /\ loadActive' = FALSE
  /\ OverlayFrame

\* the position in ts of the timer that runs next: the oldest one that is due
DueTimer(ts) == CHOOSE i \in 1..Len(ts) : ts[i].left = 0 /\ \A j \in 1..(i - 1) : ts[j].left # 0

\* ts without its i-th timer
WithoutTimer(ts, i) == SubSeq(ts, 1, i - 1) \o SubSeq(ts, i + 1, Len(ts))

\* one time unit passes; a timer that is due runs before time goes on
Tick ==
  /\ timers # << >>
  /\ \A i \in 1..Len(timers) : timers[i].left > 0
  /\ timers' = [i \in 1..Len(timers) |-> [timers[i] EXCEPT !.left = @ - 1]]
  /\ UNCHANGED << overlay, overlayText, loadActive, barWidth, steps >>
  /\ OverlayFrame

\* the oldest due timer runs: hideMapLoading, or the callback it set
\* (display "none", bar 0%)
TimerFire ==
  /\ \E i \in 1..Len(timers) : timers[i].left = 0
  /\ LET i == DueTimer(timers)
     IN  IF timers[i].fn = "hide"
           THEN /\ hideMapLoading(WithoutTimer(timers, i))
                /\ UNCHANGED << overlay, overlayText >>
           ELSE /\ timers' = WithoutTimer(timers, i)
                /\ overlay' = FALSE
                /\ barWidth' = 0
                /\ UNCHANGED overlayText
  /\ UNCHANGED << loadActive, steps >>
  /\ OverlayFrame

\* the get request of the startup restore
RestoreRequest(name) == [op |-> "restore", key |-> name, data |-> "null"]

\* what the restore handler and its continuations leave alone
RestoreFrame ==
  UNCHANGED << tVars, ptrVars, rafVars, rafRuns, dom, frameVars, paintVars, dragVars,
               getResult, loadActive, nWheel >>

\* window "DOMContentLoaded": the handler up to its suspension in
\* loadCachedMap's await openDB(); it runs before any other event
DOMContentLoaded ==
  /\ steps = 0
  /\ steps' = 1
  /\ db = 0
  /\ tasks' = Append(tasks, [kind |-> "restore", arg |-> RestoreName(lastMapName)])
  /\ UNCHANGED << sceneVars, mapCanvas, barWidth, db, dbSeq, txQueue, store, lastMapName,
                  history, drawCalls, cacheFailed, overlay, overlayText, timers >>
  /\ RestoreFrame

\* the restore's indexedDB.open finishes and loadCachedMap issues its get;
\* a failed open or a throwing db.transaction lands in the handler's catch
\* (hideMapLoading)
RestoreOpenDone(ok, throws) ==
  /\ tasks # << >>
  /\ Head(tasks).kind = "restore"
  /\ ok \/ ~throws
  /\ LET fails == ~ok \/ throws
     IN  /\ tasks' = Tail(tasks)
         /\ db' = IF ok THEN dbSeq + 1 ELSE db
         /\ dbSeq' = IF ok THEN dbSeq + 1 ELSE dbSeq
         /\ cacheFailed' = (cacheFailed \/ fails)
         /\ IF fails
              THEN /\ hideMapLoading(timers)
                   /\ UNCHANGED txQueue
              ELSE /\ txQueue' = Append(txQueue, RestoreRequest(Head(tasks).arg))
                   /\ UNCHANGED << barWidth, timers >>
  /\ UNCHANGED << sceneVars, mapCanvas, store, lastMapName, history, drawCalls,
                  overlay, overlayText, steps >>
  /\ RestoreFrame

\* the restore's get finishes and the handler runs on to its end: with a
\* cached payload it shows the overlay, applies the payload through updateMap
\* (the store is open, so the put is issued at once; throws: db.transaction
\* or store.put threw), draws and sets the hide timer; a failed get lands in
\* the catch (hideMapLoading)
RestoreGetDone(ok, throws) ==
  /\ txQueue # << >>
  /\ Head(txQueue).op = "restore"
  /\ ok \/ ~throws
  /\ LET req == Head(txQueue)
         cached == LookupByName(store, req.key)
     IN  IF ~ok
           THEN /\ txQueue' = Tail(txQueue)
                /\ hideMapLoading(timers)
                /\ cacheFailed' = TRUE
                /\ UNCHANGED << sceneVars, mapCanvas, lastMapName, history, drawCalls,
                                overlay, overlayText >>
           ELSE /\ history' = Append(history, [req EXCEPT !.data = cached])
                /\ IF cached = "null"
                     THEN /\ ~throws
                          /\ txQueue' = Tail(txQueue)
                          /\ UNCHANGED << sceneVars, mapCanvas, barWidth, lastMapName,
                                          drawCalls, cacheFailed, overlay, overlayText,
                                          timers >>
                     ELSE /\ overlayText' = "Restoring cached map..."
                          /\ overlay' = TRUE
                          /\ mapData' = cached
                          /\ mapBounds' = ComputeBounds(Payload(cached).lanes)
                          /\ txQueue' = IF throws THEN Tail(txQueue)
                                        ELSE Append(Tail(txQueue), PutRequest(cached))
                          /\ lastMapName' = IF throws THEN lastMapName ELSE StoredName(cached)
                          /\ cacheFailed' = (cacheFailed \/ throws)
                          /\ mapCanvas' = DrawMapOf(cached, mapCanvas)
                          /\ drawCalls' = InitMapDraws(cached)
                          /\ barWidth' = updateMapLoading(100)
                          /\ timers' = SetTimeout(timers, "hide", HideDelay)
  /\ UNCHANGED << db, dbSeq, tasks, store, steps >>
  /\ RestoreFrame

\* the display refresh: the pending animation-frame callbacks (drawMap) run
Refresh ==
  /\ rafPending # {}
  /\ rafRuns' = [events |-> mutations, ran |-> Cardinality(rafPending)]
  /\ rafPending' = {}
  /\ mutations' = 0
  /\ mapCanvas' = DrawMapOf(mapData, mapCanvas)
  /\ drawCalls' = Cardinality(rafPending)
  /\ UNCHANGED << tVars, ptrVars, rafToken, sceneVars, barWidth, dom,
                  cacheVars, cacheFailed, steps, nWheel >>
  /\ UNCHANGED << frameVars, paintVars, overlayVars, dragVars >>

(***************************************************************************)
(* actor.js                                                                *)
(***************************************************************************)
\* ROLE_TYPE / ACTOR_TYPE lookup, "gray" for an unlisted type
ActorColor(a) ==
  IF a.role = "ads" THEN "rgb(245,82,82)"
  ELSE CASE Head(a.category) = "vehicle" -> "rgb(79,108,243)"
         [] Head(a.category) = "walker"  -> "rgb(245,177,8)"
         [] Head(a.category) = "static"  -> "rgb(184,29,227)"
         [] Head(a.category) = "bicycle" -> "rgb(0,175,149)"
         [] OTHER                        -> "gray"

\* the negation of drawActor's skip test: !polygon || polygon.length < 3
HasGeometry(a) == a.polygon # U /\ Len(a.polygon) >= 3

\* parseFloat(speed).toFixed(2), as hundredths (speed >= 0)
ToFixed2(speed) == (speed[1] * 200 + speed[2]) \div (2 * speed[2])

\* the keys of fillGroups in insertion order
RECURSIVE FillColors(_, _, _)
FillColors(list, i, acc) ==
  IF i > Len(list) THEN acc
  ELSE FillColors(list, i + 1,
                  IF \E k \in 1..Len(acc) : acc[k] = ActorColor(list[i]) THEN acc
                  ELSE Append(acc, ActorColor(list[i])))

\* the polygons the fill loop paints: one fill and one stroke each, colour by colour
RECURSIVE FillPass(_, _, _)
FillPass(list, colors, k) ==
  IF k > Len(colors) THEN << >>
  ELSE LET OfColor(a) == ActorColor(a) = colors[k]
           group == SelectSeq(list, OfColor)
       IN  [j \in 1..Len(group) |->
              [id |-> group[j].id, color |-> colors[k], points |-> Len(group[j].polygon)]]
           \o FillPass(list, colors, k + 1)

\* the labels the text loop paints: identifier and speed per entry of textData
RECURSIVE TextPass(_, _)
TextPass(list, i) ==
  IF i > Len(list) THEN << >>
  ELSE << [id |-> list[i].id, text |-> "id", value |-> list[i].id],
          [id |-> list[i].id, text |-> "m/s", value |-> ToFixed2(list[i].speed)] >>
       \o TextPass(list, i + 1)

BlankCanvas == [polygons |-> << >>, labels |-> << >>]

\* drawActor on the module's list: the canvas it leaves and how it ended.
\* wa: window.actors is truthy; gm: the globals min_x, min_y it reads exist.
DrawActor(list, canvas, wa, gm) ==
  LET drawable == SelectSeq(list, HasGeometry)
  IN  IF ~wa THEN [canvas |-> canvas, end |-> "skipped"]
      ELSE IF list = U THEN [canvas |-> canvas, end |-> "threw"]
      ELSE IF Len(list) = 0 THEN [canvas |-> canvas, end |-> "skipped"]
      ELSE IF drawable # << >> /\ ~gm THEN [canvas |-> BlankCanvas, end |-> "threw"]
      ELSE [canvas |-> [polygons |-> FillPass(drawable, FillColors(drawable, 1, << >>), 1),
                        labels |-> TextPass(drawable, 1)],
            end |-> "drawn"]

\* mutant: an empty list does not replace the stored one
updateActorsKeepOnEmpty(newActors) ==
  LET kept == IF newActors = << >> THEN actors ELSE newActors
      d == DrawActor(kept, actorCanvas, windowActors, globalMin)
  IN  /\ actors' = kept
      /\ actorCanvas' = d.canvas
      /\ lastDraw' = d.end

\* updateActors(newActors): actors = newActors; drawActor()
updateActors(newActors) ==
  LET d == DrawActor(newActors, actorCanvas, windowActors, globalMin)
  IN  /\ actors' = newActors
      /\ actorCanvas' = d.canvas
      /\ lastDraw' = d.end

(***************************************************************************)
(* main.js: per-frame updates                                              *)
(***************************************************************************)
\* updateInfo and updateTrafficLights: the displays show the frame they are given
UpdateReadouts(trafficData) ==
  [info |-> trafficData.frame, lights |-> trafficData.frame]

\* updateFrame: renders window.latestTrafficData, whatever its argument
updateFrame(latest) ==
  IF latest = "null"
    THEN UNCHANGED << readouts, actors, actorCanvas, lastDraw >>
    ELSE /\ readouts' = UpdateReadouts(Frame(latest))
         /\ updateActors(Frame(latest).actors)

\* mutant: updateFrame's drawMap() call is live again
TrafficUpdateRedrawsMap(f) ==
  /\ steps < MaxSteps
  /\ steps' = steps + 1
  /\ latestTrafficData' = f
  /\ updateFrame(f)
  /\ received' = Append(received, f)
  /\ mapCanvas' = DrawMapOf(mapData, mapCanvas)
  /\ drawCalls' = 1
  /\ UNCHANGED << tVars, ptrVars, rafVars, rafRuns, sceneVars, barWidth,
                  dom, cacheVars, windowActors, globalMin, cacheFailed,
                  paintVars, overlayVars, dragVars, nWheel >>

\* socket.on("traffic_update")
TrafficUpdate(f) ==
  /\ steps < MaxSteps
  /\ steps' = steps + 1
  /\ latestTrafficData' = f
  /\ updateFrame(f)
  /\ received' = Append(received, f)
  /\ UNCHANGED << tVars, ptrVars, rafVars, rafRuns, sceneVars, mapCanvas, barWidth,
                  dom, cacheVars, windowActors, globalMin, drawCalls, cacheFailed,
                  paintVars, overlayVars, dragVars, nWheel >>

(***************************************************************************)
(* Specifications                                                          *)
(***************************************************************************)
\* the state once the modules are loaded, but for what earlier sessions have
\* persisted and for the globals actor.js reads
InitPage ==
  /\ offsetX = Num(0) /\ offsetY = Num(0) /\ scale = Num(1) /\ rotationAngle = Num(0)
  /\ isDragging = FALSE /\ isRotating = FALSE
  /\ startX = Num(0) /\ startY = Num(0)
  /\ rafToken = 0 /\ rafPending = {}
  /\ mutations = 0 /\ rafRuns = [events |-> 0, ran |-> 0]
  /\ mapData = "null"
  /\ mapBounds = [min_x |-> Num(0), min_y |-> Num(0), max_x |-> Num(0), max_y |-> Num(0)]
  /\ mapCanvas = "blank"
  /\ barWidth = 0
  /\ dom \in {d \in DomStates : d.container # U}
  /\ db = 0 /\ dbSeq = 0
  /\ tasks = << >> /\ txQueue = << >>
  /\ getResult = [name |-> "", value |-> "null"]
  /\ history = << >>
  /\ latestTrafficData = "null"
  /\ actors = U
  /\ actorCanvas = BlankCanvas
  /\ readouts = [info |-> 0, lights |-> 0]
  /\ received = << >>
  /\ lastDraw = "none"
  /\ drawCalls = 0
  /\ cacheFailed = FALSE
  /\ laneIn = U /\ strokes = << >>
  /\ overlay = FALSE /\ overlayText = "" /\ timers = << >> /\ loadActive = FALSE
  /\ panRef = U /\ rotRef = U
  /\ steps = 0 /\ nWheel = 0

\* the same in a browser where nothing is persisted yet
InitModules ==
  /\ InitPage
  /\ store = [k \in Keys |-> "none"]
  /\ lastMapName = ""

\* what an earlier session may have left: nothing, a named scene, or a scene
\* without a name (its record under "unknown", its name persisted as
\* "undefined")
Persisted ==
  { [store |-> [k \in Keys |-> "none"], lastMapName |-> ""],
    [store |-> [k \in Keys |-> IF k = "town" THEN "A" ELSE "none"], lastMapName |-> "town"],
    [store |-> [k \in Keys |-> IF k = "unknown" THEN "D" ELSE "none"],
     lastMapName |-> "undefined"] }

\* a page load after earlier sessions
InitRestore ==
  /\ InitPage
  /\ \E p \in Persisted : store = p.store /\ lastMapName = p.lastMapName
  /\ windowActors = FALSE /\ globalMin = FALSE

\* no source file assigns window.actors or defines min_x, min_y
Init == InitModules /\ windowActors = FALSE /\ globalMin = FALSE

\* the page may carry other scripts that define the globals actor.js reads
InitFrames == InitModules /\ windowActors \in BOOLEAN /\ globalMin \in BOOLEAN

\* the view: gestures, transform, scene loads, redraw scheduling
NextView ==
  \/ \E up \in BOOLEAN, c \in Pointers : Wheel(up, c)
  \/ \E b \in Buttons, c \in Pointers : MouseDown(b, c)
  \/ \E c \in Pointers : MouseMove(c)
  \/ MouseUpOrLeave
  \/ ResetClick
  \/ \E p \in Partials : SetTransformCall(p)
  \/ \E d \in DomStates : DomChange(d)
  \/ \E id \in SceneIds : InitMap(id)
  \/ \E ok \in BOOLEAN, throws \in BOOLEAN : OpenDone(ok, throws)
  \/ Refresh

SpecView == Init /\ [][NextView]_vars

\* the map cache: scene writes, lookups, clear
NextCache ==
  \/ \E id \in SceneIds : InitMap(id)
  \/ \E name \in Keys : LoadCachedMapCall(name)
  \/ ClearMapCacheCall
  \/ \E ok \in BOOLEAN, throws \in BOOLEAN : OpenDone(ok, throws)
  \/ \E ok \in BOOLEAN : TxDone(ok)

SpecCache == Init /\ [][NextCache]_vars

\* the per-frame update stream
NextFrames == \E f \in FrameIds : TrafficUpdate(f)

SpecFrames == InitFrames /\ [][NextFrames]_vars

\* scene loading: payloads, store opens and writes
NextScene ==
  \/ \E id \in AllSceneIds : InitMap(id)
  \/ \E ok \in BOOLEAN, throws \in BOOLEAN : OpenDone(ok, throws)
  \/ \E ok \in BOOLEAN : TxDone(ok)

SpecScene == Init /\ [][NextScene]_vars

\* socket.on("init_map") for an event that arrives once the page has loaded
LiveInitMap(id) == steps > 0 /\ InitMap(id)

\* the startup restore racing with live scene payloads
NextRestore ==
  \/ DOMContentLoaded
  \/ \E ok \in BOOLEAN, throws \in BOOLEAN : RestoreOpenDone(ok, throws)
  \/ \E ok \in BOOLEAN, throws \in BOOLEAN : RestoreGetDone(ok, throws)
  \/ \E id \in {"A", "B", "D"} : LiveInitMap(id)
  \/ \E ok \in BOOLEAN, throws \in BOOLEAN : OpenDone(ok, throws)
  \/ \E ok \in BOOLEAN : TxDone(ok)

SpecRestore == InitRestore /\ [][NextRestore]_vars

\* the loading overlay: loading events and the timers they set
NextLoading ==
  \/ \E name \in LoadNames : MapLoadingStart(name)
  \/ MapLoadingDone
  \/ MapLoadingError
  \/ Tick
  \/ TimerFire

SpecLoading == Init /\ [][NextLoading]_vars

\* the two layers: gestures and refreshes on the map, frames on the actors
NextLayers ==
  \/ \E up \in BOOLEAN, c \in Pointers : Wheel(up, c)
  \/ \E b \in Buttons, c \in Pointers : MouseDown(b, c)
  \/ \E c \in Pointers : MouseMove(c)
  \/ MouseUpOrLeave
  \/ ResetClick
  \/ \E id \in {"A", "E"} : InitMap(id)
  \/ Refresh
  \/ \E f \in {"F1", "F3"} : TrafficUpdate(f)

SpecLayers == InitFrames /\ [][NextLayers]_vars

\* pointer gestures on the canvas
NextGesture ==
  \/ \E up \in BOOLEAN, c \in FarPointers : Wheel(up, c)
  \/ \E b \in Buttons, c \in FarPointers : MouseDown(b, c)
  \/ \E c \in FarPointers : MouseMove(c)
  \/ MouseUpOrLeave

SpecGesture == Init /\ [][NextGesture]_vars

\* lane boundary painting
NextBoundary == \E lane \in BoundaryLanes : DrawLaneBoundaries(lane)

SpecBoundary == Init /\ [][NextBoundary]_vars

\* the whole viewer
Next == NextView \/ NextCache \/ NextFrames \/ NextScene \/ NextBoundary \/ NextGesture
        \/ NextLayers \/ NextLoading \/ NextRestore

Spec == InitFrames /\ [][Next]_vars

(***************************************************************************)
(* Properties                                                              *)
(***************************************************************************)
\* the point of the scene, in the rotated frame centred on the scene bounds'
\* centre, that drawMap's transform stack (translate(w/2 + offset), rotate,
\* scale, translate(-centre)) places at screen coordinate m on one axis; the
\* rotation is the same before and after a wheel event and commutes with the
\* uniform scaling
SceneAt(m, offset, s, canvasDim) ==
  Div(Sub(Sub(m, Div(Num(canvasDim), Num(2))), offset), s)

\* the screen coordinate at which drawMap's transform stack places that point
ScreenAt(u, offset, s, canvasDim) ==
  Add(Add(Div(Num(canvasDim), Num(2)), offset), Mul(s, u))

\* a scene with at least one valid vertex is loaded
BoundsKnown ==
  /\ mapData # "null"
  /\ IsFinite(mapBounds.min_x) /\ IsFinite(mapBounds.max_x)
  /\ IsFinite(mapBounds.min_y) /\ IsFinite(mapBounds.max_y)
  /\ Le(mapBounds.min_x, mapBounds.max_x) /\ Le(mapBounds.min_y, mapBounds.max_y)

\* max(0, sceneDimension * scale / 2 - viewportDimension / 2)
ClaimedLimit(lo, hi, s, viewDim) ==
  LET l == Sub(Div(Mul(Sub(hi, lo), s), Num(2)), Div(Num(viewDim), Num(2)))
  IN  IF Lt(l, Num(0)) THEN Num(0) ELSE l

\* v moved to the nearest point of [-limit, limit]
Nearest(v, limit) ==
  IF Lt(v, Neg(limit)) THEN Neg(limit) ELSE IF Lt(limit, v) THEN limit ELSE v

\* the offset t lies within the limits of bounds b at t's scale in the container
WithinLimits(t, b, container) ==
  LET limitX == ClaimedLimit(b.min_x, b.max_x, t.scale, container[1])
      limitY == ClaimedLimit(b.min_y, b.max_y, t.scale, container[2])
  IN  /\ Le(Neg(limitX), t.offsetX) /\ Le(t.offsetX, limitX)
      /\ Le(Neg(limitY), t.offsetY) /\ Le(t.offsetY, limitY)

\* the offset a setTransform(p) call requests on each axis
RequestedX(p) == IF p.x # U THEN p.x ELSE offsetX

RequestedY(p) == IF p.y # U THEN p.y ELSE offsetY

\* C1: after any sequence of setTransform calls and gestures the stored scale
\* lies in [minScale, maxScale] = [1, 50]
C1_ScaleInRange == Le(Num(1), scale) /\ Le(scale, Num(50))

\* C1 witness: a wheel-up step was cut off at maxScale
C1_Witness == scale = Num(50) /\ nWheel > 0

\* C2: a wheel event over a loaded scene leaves the scene point under the
\* cursor at the cursor's screen position
C2_ZoomToCursor ==
  [][\A up \in BOOLEAN, c \in Pointers :
       (mapData # "null" /\ Wheel(up, c)) =>
         /\ ScreenAt(SceneAt(MousePos(c)[1], offsetX, scale, dom.canvas[1]),
                     offsetX', scale', dom.canvas[1]) = MousePos(c)[1]
         /\ ScreenAt(SceneAt(MousePos(c)[2], offsetY, scale, dom.canvas[2]),
                     offsetY', scale', dom.canvas[2]) = MousePos(c)[2]]_vars

\* C3: after a setTransform call made while scene bounds and the viewport
\* size are known, each offset axis is the requested offset moved to the
\* nearest point of [-limit, limit], limit = max(0, dim * scale / 2 - view / 2)
C3_OffsetClamped ==
  [][\A p \in Partials :
       (BoundsKnown /\ dom.container # U /\ SetTransformCall(p)) =>
         /\ offsetX' = Nearest(RequestedX(p),
                               ClaimedLimit(mapBounds.min_x, mapBounds.max_x, scale', dom.container[1]))
         /\ offsetY' = Nearest(RequestedY(p),
                               ClaimedLimit(mapBounds.min_y, mapBounds.max_y, scale', dom.container[2]))]_vars

\* C4: in every reachable state setTransform({}) leaves offsetX, offsetY,
\* scale and rotationAngle unchanged
C4_EmptyIsNoOp ==
  [][SetTransformCall(Partial(U, U, U, U)) => UNCHANGED tVars]_vars

\* C5: whenever scene bounds are known the stored offset is within the clamp
\* limits of the active scene's bounds, the scale and the viewport size
C5_OffsetWithinLimits ==
  (BoundsKnown /\ dom.container # U) => WithinLimits(getTransform, mapBounds, dom.container)

\* C6: setTransform stores the requested offset unchanged when the bounds are
\* unknown or the container is missing, and clamps it for every scene with a
\* valid vertex
C6_ClampIffKnown ==
  [][\A p \in Partials :
       SetTransformCall(p) =>
         IF BoundsKnown /\ dom.container # U
           THEN WithinLimits(getTransform', mapBounds, dom.container)
           ELSE offsetX' = RequestedX(p) /\ offsetY' = RequestedY(p)]_vars

\* the payload a get of name must return after the first i cache operations:
\* the latest put under that name since the last clear, or not-found
RECURSIVE LatestPut(_, _, _)
LatestPut(h, i, name) ==
  IF i = 0 THEN "null"
  ELSE IF h[i].op = "clear" THEN "null"
  ELSE IF h[i].op = "put" /\ h[i].key = name THEN h[i].data
  ELSE LatestPut(h, i - 1, name)

\* C7: over the finished cache operations, every get returned the payload of
\* the most recent put for its name since the last clear, or not-found
C7_CacheSemantics ==
  \A i \in 1..Len(history) :
    history[i].op = "get" => history[i].data = LatestPut(history, i - 1, history[i].key)

\* C7 witness: a name was written twice and a later get returned the second payload
C7_Witness ==
  \E i, j, k \in 1..Len(history) :
    /\ i < j /\ j < k
    /\ history[i].op = "put" /\ history[j].op = "put" /\ history[k].op = "get"
    /\ history[i].key = history[k].key /\ history[j].key = history[k].key
    /\ history[i].data # history[j].data
    /\ history[k].data = history[j].data

\* C8: gestures handled between two refreshes leave exactly one redraw
\* callback pending, never more than one is pending, and the refresh that
\* follows them runs drawMap exactly once
C8_RedrawCoalesced ==
  /\ Cardinality(rafPending) <= 1
  /\ mutations >= 1 => Cardinality(rafPending) = 1
  /\ rafRuns.events >= 1 => rafRuns.ran = 1

\* C8 witness: a refresh that followed two or more gestures
C8_Witness == rafRuns.events >= 2 /\ rafRuns.ran = 1

\* the identifiers of a list of records
Ids(list) == { list[i].id : i \in 1..Len(list) }

\* C9: the stored latest frame and the renderer's actor list are those of the
\* most recently received update, and a drawing made for it shows actors of
\* that update only
C9_LastWriteWins ==
  received # << >> =>
    /\ latestTrafficData = received[Len(received)]
    /\ actors = Frame(received[Len(received)]).actors
    /\ lastDraw = "drawn" =>
         /\ Ids(actorCanvas.polygons) \subseteq Ids(Frame(received[Len(received)]).actors)
         /\ Ids(actorCanvas.labels) \subseteq Ids(Frame(received[Len(received)]).actors)

\* C9 witness: a second update replaced the first one's actors and drawing
C9_Witness ==
  /\ Len(received) >= 2
  /\ received[Len(received)] # received[Len(received) - 1]
  /\ Frame(received[Len(received) - 1]).actors # << >>
  /\ lastDraw = "drawn"
  /\ actorCanvas.polygons # << >>

\* the number of entries of a list with identifier id
CountOf(list, id) == Cardinality({ i \in 1..Len(list) : list[i].id = id })

\* C10: once a per-frame update is handled, every actor of it with at least 3
\* polygon points is drawn as one polygon and two labels, and every other
\* actor of it as nothing
C10_ActorsDrawn ==
  received # << >> =>
    LET list == Frame(received[Len(received)]).actors
    IN  \A i \in 1..Len(list) :
          IF list[i].polygon # U /\ Len(list[i].polygon) >= 3
            THEN /\ CountOf(actorCanvas.polygons, list[i].id) = 1
                 /\ CountOf(actorCanvas.labels, list[i].id) = 2
            ELSE /\ CountOf(actorCanvas.polygons, list[i].id) = 0
                 /\ CountOf(actorCanvas.labels, list[i].id) = 0

\* the vertices of a lane list whose two coordinates are both finite numbers
FiniteVertices(lanes) ==
  UNION { { lanes[i].polygon[j] :
              j \in { k \in 1..Len(lanes[i].polygon) :
                        /\ lanes[i].polygon[k][1] # U /\ lanes[i].polygon[k][2] # U
                        /\ IsFinite(lanes[i].polygon[k][1])
                        /\ IsFinite(lanes[i].polygon[k][2]) } } :
          i \in { l \in 1..Len(lanes) : lanes[l].polygon # U } }

\* the least and the greatest of a non-empty set of finite numbers
MinOf(S) == CHOOSE m \in S : \A x \in S : Le(m, x)

MaxOf(S) == CHOOSE m \in S : \A x \in S : Le(x, m)

\* per-axis min and max over the finite vertices; min > max when there is none
ClaimedBounds(lanes) ==
  LET vs == FiniteVertices(lanes)
  IN  IF vs = {} THEN [min_x |-> PosInf, min_y |-> PosInf, max_x |-> NegInf, max_y |-> NegInf]
      ELSE [min_x |-> MinOf({ v[1] : v \in vs }), min_y |-> MinOf({ v[2] : v \in vs }),
            max_x |-> MaxOf({ v[1] : v \in vs }), max_y |-> MaxOf({ v[2] : v \in vs })]

\* C11: once a scene payload is applied, the scene bounds are the per-axis min
\* and max over exactly the lane-polygon vertices whose two coordinates are
\* both finite numbers
C11_BoundsOverFiniteVertices ==
  mapData # "null" => mapBounds = ClaimedBounds(Payload(mapData).lanes)

\* the payload is absent or has no lane list
NoLaneList(id) == id = "null" \/ Payload(id).lanes = U

\* C12: a scene payload that is absent or has no lane list changes neither the
\* in-memory scene, nor the bounds, nor the cache (no write is started), nor
\* the persisted last-scene name
C12_InvalidSkipped ==
  [][\A id \in AllSceneIds :
       (NoLaneList(id) /\ InitMap(id)) =>
         UNCHANGED << mapData, mapBounds, store, txQueue, tasks, lastMapName >>]_vars

\* C12 witness: a payload without a lane list was handled while a cached scene
\* was displayed, which stays displayed
C12_Witness ==
  /\ mapData # "null" /\ mapCanvas = mapData
  /\ lastMapName # ""
  /\ drawCalls = 1

C14_DrawnWithoutWaiting ==
  [][\A id \in AllSceneIds :
       (~NoLaneList(id) /\ InitMap(id)) => mapCanvas' = id]_vars


C16_ReleaseClearsFlags ==
  [][/\ MouseUpOrLeave => (~isDragging' /\ ~isRotating')
     /\ \A c \in Pointers :
          (~isDragging /\ ~isRotating /\ MouseMove(c)) => UNCHANGED << tVars, rafVars >>
     /\ (/\ ~isDragging /\ ~isRotating
         /\ ~(\E b \in Buttons, c \in Pointers : MouseDown(b, c))) =>
          (~isDragging' /\ ~isRotating')]_vars

\* C16 witness: a button was pressed at (7,3) and released, no move was made
\* while it was down, and an event after the release left the view alone
C16_Witness ==
  /\ ~isDragging /\ ~isRotating
  /\ startX = Num(7) /\ startY = Num(3)
  /\ steps = 3 /\ mutations = 0 /\ rafPending = {}
  /\ offsetX = Num(0) /\ offsetY = Num(0) /\ scale = Num(1) /\ rotationAngle = Num(0)

\* C17: once every pending cache operation has finished, all of them
\* successfully, the persisted last-scene name is the name of the scene held
\* in memory for rendering
C17_LastNameTracksScene ==
  (/\ tasks = << >> /\ txQueue = << >> /\ ~cacheFailed
   /\ mapData # "null" /\ Payload(mapData).map_name # "") =>
    lastMapName = Payload(mapData).map_name

\* the type names classified as a yellow or a white marking
YellowOrWhite ==
  { "DOTTED_YELLOW", "DOTTED_WHITE", "SOLID_YELLOW", "SOLID_WHITE", "DOUBLE_YELLOW",
    "WHITE_ZIGZAG" }

\* the types whose style is dashed
DashedTypes == { "DOTTED_YELLOW", "DOTTED_WHITE" }

\* the types that are never drawn: curb, unknown, absent, unrecognized
NeverDrawn == { "CURB", "UNKNOWN", "", "BOTTS_DOTS", "solid_white" }

\* the strokes painted for the boundary named key
StrokesOf(key) == SelectSeq(strokes, LAMBDA st : st.key = key)

\* the claim for one boundary of the lane last painted
BoundaryFiltered(key, typeKey) ==
  /\ typeKey \in NeverDrawn => StrokesOf(key) = << >>
  /\ StrokesOf(key) # << >> => typeKey \in YellowOrWhite
  /\ (typeKey \in YellowOrWhite /\ Len(laneIn[key]) >= 2) => Len(StrokesOf(key)) = 1
  /\ \A i \in 1..Len(StrokesOf(key)) :
       StrokesOf(key)[i].dash # << >> <=> typeKey \in DashedTypes

\* C18: a lane boundary is drawn only if its type is a yellow or white
\* marking, never for CURB, UNKNOWN, an absent or an unrecognized type, and a
\* drawn boundary has a dash pattern exactly when its type is dotted
C18_BoundaryFiltering ==
  laneIn # U =>
    /\ BoundaryFiltered("left_boundary", laneIn.left_boundary_type)
    /\ BoundaryFiltered("right_boundary", laneIn.right_boundary_type)

\* C18 witness: a lane with a dotted yellow left boundary and a curb on the
\* right, both with two points: one stroke, dashed
C18_Witness ==
  /\ laneIn # U
  /\ laneIn.left_boundary_type = "DOTTED_YELLOW" /\ Len(laneIn.left_boundary) = 2
  /\ laneIn.right_boundary_type = "CURB" /\ Len(laneIn.right_boundary) = 2
  /\ Len(strokes) = 1 /\ strokes[1].dash = << 4, 4 >>

\* C19: no handler run (scene payload, deferred completion, refresh) executes
\* drawMap more than once
C19_OneDrawPerHandler == drawCalls <= 1

\* C20: the persistent store is opened at most once per session, so at most
\* one store handle is ever delivered
C20_StoreOpenedOnce == dbSeq <= 1

\* the offset stored for a requested one: moved into the limits when the
\* scene bounds and the viewport are known, the request itself otherwise
StoredFor(reqX, reqY) ==
  IF BoundsKnown /\ dom.container # U
    THEN << Nearest(reqX, ClaimedLimit(mapBounds.min_x, mapBounds.max_x, scale, dom.container[1])),
            Nearest(reqY, ClaimedLimit(mapBounds.min_y, mapBounds.max_y, scale, dom.container[2])) >>
    ELSE << reqX, reqY >>

\* C22: between a primary-button press and the next release or leave,
\* whatever events come in between, a pointer move to p stores the offset
\* p - reference (clamped), reference = pointer at the press - offset at the
\* press
C22_PanIsTranslation ==
  [][\A c \in FarPointers :
       (isDragging /\ panRef # U /\ MouseMove(c)) =>
         << offsetX', offsetY' >> =
           StoredFor(Sub(Num(c[1]), panRef[1]), Sub(Num(c[2]), panRef[2]))]_vars

\* C23: during a secondary-button drag pressed at x0, the rotation angle
\* after a move to x is the angle at the press minus rotationStep * (x - x0),
\* whatever the positions in between, without wrap-around, and the move
\* leaves the scale unchanged
C23_RotationAccumulates ==
  [][\A c \in FarPointers :
       (isRotating /\ ~isDragging /\ rotRef # U /\ MouseMove(c)) =>
         /\ rotationAngle' = Sub(rotRef.angle, Mul(rotationStep, Sub(Num(c[1]), rotRef.x)))
         /\ scale' = scale]_vars

\* C23 witness: a secondary-button drag pressed at x = 0 and moved twice, ending
\* at x = 4000: the angle is -8 radians, more than a full turn
C23_Witness ==
  /\ isRotating /\ ~isDragging /\ rotRef # U
  /\ rotRef.x = Num(0) /\ rotRef.angle = Num(0)
  /\ startX = Num(4000)
  /\ mutations = 2 /\ nWheel = 0
  /\ rotationAngle = Num(-8)

\* a step of one of the gesture handlers
GestureStep ==
  \/ \E up \in BOOLEAN, c \in Pointers : Wheel(up, c)
  \/ \E b \in Buttons, c \in Pointers : MouseDown(b, c)
  \/ \E c \in Pointers : MouseMove(c)
  \/ MouseUpOrLeave
  \/ ResetClick

\* C24: a per-frame update neither runs nor schedules a map redraw and leaves
\* the scene data, the scene bounds and the transform alone; a gesture never
\* redraws the actor layer and leaves the scene data and the latest frame
\* alone; the transform changes in gesture handlers only
C24_LayersSeparate ==
  [][/\ (\E f \in FrameIds : TrafficUpdate(f)) =>
          UNCHANGED << mapCanvas, drawCalls, rafToken, rafPending, mapData, mapBounds, tVars >>
     /\ GestureStep =>
          UNCHANGED << actorCanvas, lastDraw, actors, mapData, mapBounds, latestTrafficData >>
     /\ ~(UNCHANGED tVars) => GestureStep]_vars

\* C24 witness: a scene is loaded but not yet painted, a gesture has moved the
\* view and has a redraw pending, and a frame has been drawn on the actor layer
C24_Witness ==
  /\ mapData # "null" /\ mapCanvas # mapData
  /\ scale # Num(1) /\ rafPending # {}
  /\ received # << >> /\ lastDraw = "drawn"

\* C25: once a valid scene payload has been applied and every cache operation
\* has finished successfully (no clear is ever issued), a lookup in the cache
\* by the persisted last-scene name returns the payload of the scene in memory
C25_RestorableByPersistedName ==
  (/\ tasks = << >> /\ txQueue = << >> /\ ~cacheFailed
   /\ mapData # "null") =>
    LookupByName(store, RestoreName(lastMapName)) = mapData

\* C26: while a load is in progress (a loading-start event has had no
\* loading-done or loading-error event yet) the overlay is displayed, whatever
\* timers of earlier loads are pending
C26_OverlayVisibleWhileLoading == loadActive => overlay

\* C21: once a live scene payload is the scene in memory, the completion of
\* the startup restore's cache read leaves the scene and its bounds as they
\* are
C21_RestoreKeepsLiveScene ==
  [][\A ok \in BOOLEAN, throws \in BOOLEAN :
       (mapData # "null" /\ RestoreGetDone(ok, throws)) => UNCHANGED sceneVars]_vars

=============================================================================
